---- MODULE Spec2Model ----
(***************************************************************************)
(* A model of compiler/compiled_method.h: SrcMapElem and SrcMap (Arrange,  *)
(* FindByTo, SortByFrom, DeltaFormat), LinkerPatch (factories, accessors,  *)
(* operator== and operator<) and the ownership of a CompiledMethod's       *)
(* auxiliary arrays.                                                       *)
(*                                                                         *)
(* from_ is uint32_t and to_ is int32_t in the source.  The arithmetic is  *)
(* modelled at a reduced width of Width bits (unsigned 0 .. 2^Width - 1,   *)
(* signed -2^(Width-1) .. 2^(Width-1) - 1, two's-complement wrap-around on *)
(* subtraction), and the composite key shifts by Width instead of 32.      *)
(* The left shift of a negative int64_t in operator int64_t and an int32_t *)
(* subtraction that leaves the range of int32_t are taken with their       *)
(* two's-complement results, which is what the compilers the code is built *)
(* with generate for them.                                                 *)
(*                                                                         *)
(* DCHECK is compiled in only in debug builds (kIsDebugBuild); there a     *)
(* failed DCHECK aborts the process, elsewhere it is not evaluated.        *)
(*                                                                         *)
(* compiled_method.h only declares CompiledMethod's constructor,           *)
(* destructor and ReleaseSwapAllocatedCompiledMethod; the part on the      *)
(* ownership of the arrays follows the design description.                 *)
(***************************************************************************)
EXTENDS Integers, Sequences, FiniteSets, Bags

VARIABLES
    map,            \* SrcMap: the vector<SrcMapElem> itself
    canonical,      \* TRUE iff the last mutation of map was Arrange()
    encodes,        \* number of DeltaFormat calls made on map
    last,           \* the last call on map: arguments, the map before it, results
    kIsDebugBuild,  \* whether DCHECK is compiled in
    aborted,        \* a failed DCHECK has terminated the process
    patches,        \* the LinkerPatch objects constructed so far
    made,           \* for each patch, the factory call its value comes from
    cmp,            \* results of operator== / operator< on the patches
    acc,            \* the last accessor call on a patch and its result
    units,          \* CompiledMethod objects
    arrays,         \* auxiliary arrays: who owns them and how often they were freed
    pool_released   \* the dedupe pool has released its arrays

srcmap_vars == <<map, canonical, encodes, last, kIsDebugBuild, aborted>>
patch_vars  == <<patches, made, cmp, acc>>
unit_vars   == <<units, arrays, pool_released>>
vars        == <<map, canonical, encodes, last, kIsDebugBuild, aborted,
                 patches, made, cmp, acc, units, arrays, pool_released>>

(***************************************************************************)
(* Bounds.                                                                 *)
(***************************************************************************)
Width == 8
MaxLen == 3
MaxEncodes == 2
MaxIdx == 1
MaxUnits == 3

Modulus == 2 ^ Width
Half == 2 ^ (Width - 1)
MinTo == 0 - Half

\* uint32_t arithmetic: the result modulo 2^Width.
U(x) == x % Modulus

\* int32_t arithmetic: the two's-complement value of the low Width bits.
S(x) == IF (x % Modulus) >= Half THEN (x % Modulus) - Modulus ELSE x % Modulus

Elem(f, t) == [from_ |-> f, to_ |-> t]

\* The entries a code generator appends, the baselines and the code extents
\* DeltaFormat is called with, and the lines FindByTo is asked for.
Entries == {Elem(10, 1), Elem(20, 2), Elem(30, 3), Elem(90, 3),
            Elem(10, -1), Elem(0, MinTo)}
Starts == {Elem(0, 0), Elem(5, 0), Elem(20, -1)}
HighestPcs == {0, 50, 100}
Targets == {MinTo, -1, 0, 2, 3, Half - 1}

(***************************************************************************)
(* SrcMapElem                                                              *)
(***************************************************************************)
\* operator int64_t: (static_cast<int64_t>(to_) << 32) | from_.  The shifted
\* value has its low bits clear and from_ is zero-extended, so | is +.
Key(e) == e.to_ * Modulus + e.from_

ElemLess(a, b) == Key(a) < Key(b)

ElemEq(a, b) == Key(a) = Key(b)

(***************************************************************************)
(* std:: algorithms used by SrcMap                                         *)
(***************************************************************************)
RECURSIVE InsertSorted(_, _)
InsertSorted(e, s) ==
    IF s = <<>> THEN <<e>>
    ELSE IF ElemLess(e, Head(s)) THEN <<e>> \o s
    ELSE <<Head(s)>> \o InsertSorted(e, Tail(s))

\* std::sort(begin(), end()) with operator<.
RECURSIVE SortByKey(_)
SortByKey(m) ==
    IF m = <<>> THEN <<>> ELSE InsertSorted(Head(m), SortByKey(Tail(m)))

\* Unique with the duplicates left in.
UniqueKeepAll(m) == m

\* std::unique(begin(), end()) with operator==, followed by the resize to
\* the returned end: of each run of equal neighbours the first is kept.
RECURSIVE Unique(_)
Unique(m) ==
    IF Len(m) <= 1 THEN m
    ELSE IF ElemEq(m[1], m[2]) THEN Unique(<<m[1]>> \o SubSeq(m, 3, Len(m)))
    ELSE <<m[1]>> \o Unique(Tail(m))

\* The sequences obtained by putting e into s, sorted by from_, at a place
\* that keeps it sorted by from_.
InsertByFrom(e, s) ==
    {SubSeq(s, 1, k) \o <<e>> \o SubSeq(s, k + 1, Len(s)) :
        k \in {j \in 0..Len(s) :
                 /\ \A i \in 1..j : ~(e.from_ < s[i].from_)
                 /\ \A i \in (j + 1)..Len(s) : ~(s[i].from_ < e.from_)}}

\* std::sort with the comparator lhs.from_ < rhs.from_: the sort is not
\* stable, so every ordering of the entries that is ascending in from_ is a
\* possible result.
RECURSIVE SortByFrom(_)
SortByFrom(m) ==
    IF m = <<>> THEN {<<>>}
    ELSE UNION {InsertByFrom(Head(m), s) : s \in SortByFrom(Tail(m))}

\* std::lower_bound(first, first + count, val) with operator<, 0-based.
RECURSIVE LowerBound(_, _, _, _)
LowerBound(m, first, count, val) ==
    IF count > 0
    THEN LET step == count \div 2
             it == first + step
         IN IF ElemLess(m[it + 1], val)
            THEN LowerBound(m, it + 1, count - (step + 1), val)
            ELSE LowerBound(m, first, step, val)
    ELSE first

(***************************************************************************)
(* SrcMap                                                                  *)
(***************************************************************************)
\* FindByTo with the fields of the searched element swapped: {to, 0}.
FindByToSwapped(m, to) == LowerBound(m, 0, Len(m), Elem(U(to), 0))

\* FindByTo: the 0-based position lower_bound returns; Len(m) is end().
FindByTo(m, to) == LowerBound(m, 0, Len(m), Elem(0, to))

\* Arrange with the resize one short of what unique returned.
ArrangeOneShort(m) ==
    IF m # <<>>
    THEN SubSeq(Unique(SortByKey(m)), 1, Len(Unique(SortByKey(m))) - 1)
    ELSE m

\* Arrange: sort, unique, resize (shrink_to_fit changes capacity only).
Arrange(m) == IF m # <<>> THEN Unique(SortByKey(m)) ELSE m

\* "get rid of the highest values": i = size() - 1; for (; i > 0; i--)
\* if ((*this)[i].from_ < highest_pc) break;   The value of i at loop exit.
RECURSIVE TruncateIndex(_, _, _)
TruncateIndex(m, i, highest_pc) ==
    IF i > 0
    THEN IF m[i + 1].from_ < highest_pc THEN i
         ELSE TruncateIndex(m, i - 1, highest_pc)
    ELSE i

\* Truncate with resize(i) for resize(i + 1).
TruncateOneShort(m, highest_pc) ==
    SubSeq(m, 1, TruncateIndex(m, Len(m) - 1, highest_pc))

\* this->resize(i + 1)
Truncate(m, highest_pc) ==
    SubSeq(m, 1, TruncateIndex(m, Len(m) - 1, highest_pc) + 1)

\* DeltaStep with the to_ line left out.
DeltaStepFromOnly(m, i) ==
    [m EXCEPT ![i + 1] = Elem(U(m[i + 1].from_ - m[i].from_), m[i + 1].to_)]

\* One iteration of the delta loop at 0-based index i.
DeltaStep(m, i) ==
    [m EXCEPT ![i + 1] = Elem(U(m[i + 1].from_ - m[i].from_),
                              S(m[i + 1].to_ - m[i].to_))]

\* for (i = size(); --i >= 1; ) { ... }  entered with i already decremented.
RECURSIVE DeltaLoop(_, _)
DeltaLoop(m, i) ==
    IF i >= 1 THEN DeltaLoop(DeltaStep(m, i), i - 1) ELSE m

\* The DCHECK with > for >=.
DeltaDCheckStrict(m, start) == m[1].from_ > start.from_

\* DCHECK((*this)[0].from_ >= start.from_)
DeltaDCheck(m, start) == m[1].from_ >= start.from_

\* SubtractStart with start's fields taken the wrong way round.
SubtractStartSwapped(m, start) ==
    [m EXCEPT ![1] = Elem(U(m[1].from_ - start.to_),
                          S(m[1].to_ - start.from_))]

\* (*this)[0].from_ -= start.from_; (*this)[0].to_ -= start.to_;
SubtractStart(m, start) ==
    [m EXCEPT ![1] = Elem(U(m[1].from_ - start.from_),
                          S(m[1].to_ - start.to_))]

\* last: op is the call, pre the map before it, kept the map right after
\* DeltaFormat's resize, dcheck the outcome of DeltaFormat's DCHECK ("off":
\* not compiled in), result what FindByTo returned.
NoCall == [op |-> "none", pre |-> <<>>, kept |-> <<>>, wasCanonical |-> FALSE,
           start |-> Elem(0, 0), highest_pc |-> 0, to |-> 0,
           result |-> 0, dcheck |-> "none"]

(***************************************************************************)
(* Calls on one SrcMap                                                     *)
(***************************************************************************)
\* std::vector::push_back, as the code generator builds the table.
push_back(e) ==
    /\ ~aborted
    /\ encodes = 0
    /\ Len(map) < MaxLen
    /\ map' = Append(map, e)
    /\ canonical' = FALSE
    /\ last' = [NoCall EXCEPT !.op = "push_back"]
    /\ UNCHANGED <<encodes, kIsDebugBuild, aborted>>
    /\ UNCHANGED patch_vars
    /\ UNCHANGED unit_vars

ArrangeCall ==
    /\ ~aborted
    /\ map' = Arrange(map)
    /\ canonical' = TRUE
    /\ last' = [NoCall EXCEPT !.op = "Arrange", !.pre = map,
                              !.wasCanonical = canonical]
    /\ UNCHANGED <<encodes, kIsDebugBuild, aborted>>
    /\ UNCHANGED patch_vars
    /\ UNCHANGED unit_vars

\* lower_bound requires a range partitioned by operator<: the call is made
\* on Arrange()d maps only.
FindByToCall(to) ==
    /\ ~aborted
    /\ canonical
    /\ last' = [NoCall EXCEPT !.op = "FindByTo", !.pre = map,
                              !.wasCanonical = canonical, !.to = to,
                              !.result = FindByTo(map, to)]
    /\ UNCHANGED <<map, canonical, encodes, kIsDebugBuild, aborted>>
    /\ UNCHANGED patch_vars
    /\ UNCHANGED unit_vars

DeltaFormatCall(start, highest_pc) ==
    /\ ~aborted
    /\ encodes < MaxEncodes
    /\ encodes' = encodes + 1
    /\ IF map # <<>>
       THEN \E sorted \in SortByFrom(map) :
              LET kept == Truncate(sorted, highest_pc)
                  deltas == DeltaLoop(kept, Len(kept) - 1)
                  ok == DeltaDCheck(deltas, start)
              IN /\ aborted' = (kIsDebugBuild /\ ~ok)
                 /\ map' = IF kIsDebugBuild /\ ~ok THEN deltas
                           ELSE SubtractStart(deltas, start)
                 /\ canonical' = FALSE
                 /\ last' = [NoCall EXCEPT
                               !.op = "DeltaFormat", !.pre = map,
                               !.kept = kept, !.wasCanonical = canonical,
                               !.start = start, !.highest_pc = highest_pc,
                               !.dcheck = IF ~kIsDebugBuild THEN "off"
                                          ELSE IF ok THEN "passed" ELSE "failed"]
       ELSE /\ last' = [NoCall EXCEPT
                          !.op = "DeltaFormat", !.pre = map,
                          !.wasCanonical = canonical,
                          !.start = start, !.highest_pc = highest_pc]
            /\ UNCHANGED <<map, canonical, aborted>>
    /\ UNCHANGED kIsDebugBuild
    /\ UNCHANGED patch_vars
    /\ UNCHANGED unit_vars

(***************************************************************************)
(* LinkerPatch                                                             *)
(***************************************************************************)
\* enum LinkerPatchType
kLinkerPatchMethod == 0
kLinkerPatchCall == 1
kLinkerPatchCallRelative == 2
kLinkerPatchType == 3

\* Argument values of the factories.  A DexFile is referred to by pointer:
\* it is modelled by its address, which is what == and < compare.
LiteralOffsets == {0, 1}
TargetIdxs == 0..MaxIdx
DexFiles == {1, 2}

\* The private constructor.
LinkerPatch(literal_offset, patch_type, target_idx, target_dex_file) ==
    [literal_offset_ |-> literal_offset, patch_type_ |-> patch_type,
     target_idx_ |-> target_idx, target_dex_file_ |-> target_dex_file]

MethodPatch(literal_offset, target_dex_file, target_method_idx) ==
    LinkerPatch(literal_offset, kLinkerPatchMethod, target_method_idx, target_dex_file)

CodePatch(literal_offset, target_dex_file, target_method_idx) ==
    LinkerPatch(literal_offset, kLinkerPatchCall, target_method_idx, target_dex_file)

RelativeCodePatch(literal_offset, target_dex_file, target_method_idx) ==
    LinkerPatch(literal_offset, kLinkerPatchCallRelative, target_method_idx, target_dex_file)

TypePatch(literal_offset, target_dex_file, target_type_idx) ==
    LinkerPatch(literal_offset, kLinkerPatchType, target_type_idx, target_dex_file)

\* TargetMethod's DCHECK with kLinkerPatchCallRelative forgotten.
TargetMethodDCheckNoRelative(p) ==
    \/ p.patch_type_ = kLinkerPatchMethod
    \/ p.patch_type_ = kLinkerPatchCall

\* DCHECK of TargetMethod()
TargetMethodDCheck(p) ==
    \/ p.patch_type_ = kLinkerPatchMethod
    \/ p.patch_type_ = kLinkerPatchCall
    \/ p.patch_type_ = kLinkerPatchCallRelative

\* DCHECK of TargetTypeDexFile() and of TargetTypeIndex()
TargetTypeDCheck(p) == p.patch_type_ = kLinkerPatchType

LiteralOffset(p) == p.literal_offset_

Type(p) == p.patch_type_

\* MethodReference(target_dex_file_, target_idx_)
TargetMethod(p) == <<p.target_dex_file_, p.target_idx_>>

TargetTypeDexFile(p) == p.target_dex_file_

TargetTypeIndex(p) == p.target_idx_

\* operator==(const LinkerPatch&, const LinkerPatch&)
PatchEq(lhs, rhs) ==
    /\ lhs.literal_offset_ = rhs.literal_offset_
    /\ lhs.patch_type_ = rhs.patch_type_
    /\ lhs.target_idx_ = rhs.target_idx_
    /\ lhs.target_dex_file_ = rhs.target_dex_file_

\* operator< with the patch_type_ level left out.
PatchLessNoType(lhs, rhs) ==
    IF lhs.literal_offset_ # rhs.literal_offset_
    THEN lhs.literal_offset_ < rhs.literal_offset_
    ELSE IF lhs.target_idx_ # rhs.target_idx_
    THEN lhs.target_idx_ < rhs.target_idx_
    ELSE lhs.target_dex_file_ < rhs.target_dex_file_

\* operator<(const LinkerPatch&, const LinkerPatch&)
PatchLess(lhs, rhs) ==
    IF lhs.literal_offset_ # rhs.literal_offset_
    THEN lhs.literal_offset_ < rhs.literal_offset_
    ELSE IF lhs.patch_type_ # rhs.patch_type_
    THEN lhs.patch_type_ < rhs.patch_type_
    ELSE IF lhs.target_idx_ # rhs.target_idx_
    THEN lhs.target_idx_ < rhs.target_idx_
    ELSE lhs.target_dex_file_ < rhs.target_dex_file_

NoAccess == [fn |-> "none", patch |-> 0, dcheck |-> "none", value |-> <<>>]

\* A new LinkerPatch object holding the value p, made by `factory`.
Construct(cap, factory, p, literal_offset, target_dex_file, target_idx) ==
    /\ ~aborted
    /\ Len(patches) < cap
    /\ patches' = Append(patches, p)
    /\ made' = Append(made, [factory |-> factory, literal_offset |-> literal_offset,
                             target_dex_file |-> target_dex_file,
                             target_idx |-> target_idx])
    /\ cmp' = <<>>
    /\ acc' = NoAccess
    /\ UNCHANGED srcmap_vars
    /\ UNCHANGED unit_vars

MethodPatchCall(cap, o, d, x) ==
    Construct(cap, "MethodPatch", MethodPatch(o, d, x), o, d, x)

CodePatchCall(cap, o, d, x) ==
    Construct(cap, "CodePatch", CodePatch(o, d, x), o, d, x)

RelativeCodePatchCall(cap, o, d, x) ==
    Construct(cap, "RelativeCodePatch", RelativeCodePatch(o, d, x), o, d, x)

TypePatchCall(cap, o, d, x) ==
    Construct(cap, "TypePatch", TypePatch(o, d, x), o, d, x)

\* LinkerPatch& operator=(const LinkerPatch& other) = default: patch i takes
\* the whole value of patch j.
Assign(i, j) ==
    /\ ~aborted
    /\ i \in DOMAIN patches
    /\ j \in DOMAIN patches
    /\ i # j
    /\ patches' = [patches EXCEPT ![i] = patches[j]]
    /\ made' = [made EXCEPT ![i] = made[j]]
    /\ cmp' = <<>>
    /\ acc' = NoAccess
    /\ UNCHANGED srcmap_vars
    /\ UNCHANGED unit_vars

\* Every ordered pair of the patches is compared with operator== and with
\* operator<, as sorting them or keeping them in an ordered container does.
CompareAll ==
    /\ ~aborted
    /\ patches # <<>>
    /\ cmp' = [i \in DOMAIN patches |->
                 [j \in DOMAIN patches |->
                    [eq |-> PatchEq(patches[i], patches[j]),
                     lt |-> PatchLess(patches[i], patches[j])]]]
    /\ UNCHANGED <<patches, made, acc>>
    /\ UNCHANGED srcmap_vars
    /\ UNCHANGED unit_vars

\* An accessor call on patch i.  `checked` says whether the accessor has a
\* DCHECK and `ok` is its condition; a DCHECK that fails aborts the process.
Access(i, fn, checked, ok, value) ==
    /\ ~aborted
    /\ i \in DOMAIN patches
    /\ aborted' = (checked /\ kIsDebugBuild /\ ~ok)
    /\ acc' = [fn |-> fn, patch |-> i,
               dcheck |-> IF ~checked THEN "none"
                          ELSE IF ~kIsDebugBuild THEN "off"
                          ELSE IF ok THEN "passed" ELSE "failed",
               value |-> IF checked /\ kIsDebugBuild /\ ~ok THEN <<>> ELSE <<value>>]
    /\ UNCHANGED <<patches, made, cmp>>
    /\ UNCHANGED <<map, canonical, encodes, last, kIsDebugBuild>>
    /\ UNCHANGED unit_vars

LiteralOffsetCall(i) ==
    Access(i, "LiteralOffset", FALSE, TRUE, LiteralOffset(patches[i]))

TypeCall(i) ==
    Access(i, "Type", FALSE, TRUE, Type(patches[i]))

TargetMethodCall(i) ==
    Access(i, "TargetMethod", TRUE, TargetMethodDCheck(patches[i]),
           TargetMethod(patches[i]))

TargetTypeDexFileCall(i) ==
    Access(i, "TargetTypeDexFile", TRUE, TargetTypeDCheck(patches[i]),
           TargetTypeDexFile(patches[i]))

TargetTypeIndexCall(i) ==
    Access(i, "TargetTypeIndex", TRUE, TargetTypeDCheck(patches[i]),
           TargetTypeIndex(patches[i]))

(***************************************************************************)
(* CompiledMethod: ownership of the auxiliary arrays                       *)
(***************************************************************************)
\* The code a unit is compiled to; the dedupe pool shares arrays between
\* units of equal code.
Codes == {1, 2}

\* arrays[a]: the array with id a; owner is "unit" or "pool", key the code it
\* is pooled under (0: not pooled), freed the number of times it was freed.
PoolArray(code) == {a \in DOMAIN arrays : arrays[a].owner = "pool" /\ arrays[a].key = code}

\* SwapAllocCompiledMethod.  With dedupe the unit borrows the pool's array
\* for its code (the pool makes it on first use) and owns_arrays_ is false;
\* without, the unit gets an array of its own and owns_arrays_ is true.
SwapAllocCompiledMethod(code, dedupe) ==
    /\ Len(units) < MaxUnits
    /\ ~pool_released
    /\ LET fresh == Len(arrays) + 1
           shared == PoolArray(code)
           id == IF dedupe /\ shared # {} THEN CHOOSE a \in shared : TRUE ELSE fresh
       IN /\ arrays' = IF id = fresh
                       THEN Append(arrays, [owner |-> IF dedupe THEN "pool" ELSE "unit",
                                            key |-> IF dedupe THEN code ELSE 0,
                                            freed |-> 0])
                       ELSE arrays
          /\ units' = Append(units, [owns_arrays_ |-> ~dedupe, array |-> id,
                                     code |-> code, released |-> 0])
    /\ UNCHANGED pool_released
    /\ UNCHANGED srcmap_vars
    /\ UNCHANGED patch_vars

\* The release with the array freed whatever owns_arrays_ says.
ReleaseArraysAlways(m) == [arrays EXCEPT ![units[m].array].freed = @ + 1]

\* The arrays after a release of unit m: freed only if m owns them.
ReleaseArrays(m) ==
    IF units[m].owns_arrays_
    THEN [arrays EXCEPT ![units[m].array].freed = @ + 1]
    ELSE arrays

\* ReleaseSwapAllocatedCompiledMethod(driver, m), m a unit not yet released.
ReleaseSwapAllocatedCompiledMethod(m) ==
    /\ m \in DOMAIN units
    /\ units[m].released = 0
    /\ arrays' = ReleaseArrays(m)
    /\ units' = [units EXCEPT ![m].released = @ + 1]
    /\ UNCHANGED pool_released
    /\ UNCHANGED srcmap_vars
    /\ UNCHANGED patch_vars

\* The dedupe pool releases the arrays it owns, once.
PoolRelease ==
    /\ ~pool_released
    /\ pool_released' = TRUE
    /\ arrays' = [a \in DOMAIN arrays |->
                    IF arrays[a].owner = "pool"
                    THEN [arrays[a] EXCEPT !.freed = @ + 1]
                    ELSE arrays[a]]
    /\ UNCHANGED units
    /\ UNCHANGED srcmap_vars
    /\ UNCHANGED patch_vars

Init ==
    /\ map = <<>>
    /\ canonical = FALSE
    /\ encodes = 0
    /\ last = NoCall
    /\ kIsDebugBuild \in BOOLEAN
    /\ aborted = FALSE
    /\ patches = <<>>
    /\ made = <<>>
    /\ cmp = <<>>
    /\ acc = NoAccess
    /\ units = <<>>
    /\ arrays = <<>>
    /\ pool_released = FALSE

Next ==
    \/ \E e \in Entries : push_back(e)
    \/ ArrangeCall
    \/ \E to \in Targets : FindByToCall(to)
    \/ \E start \in Starts, highest_pc \in HighestPcs :
         DeltaFormatCall(start, highest_pc)

Spec == Init /\ [][Next]_vars

\* Three patches, compared.
NextPatch ==
    \/ \E o \in LiteralOffsets, d \in DexFiles, x \in TargetIdxs :
         MethodPatchCall(3, o, d, x)
    \/ \E o \in LiteralOffsets, d \in DexFiles, x \in TargetIdxs :
         CodePatchCall(3, o, d, x)
    \/ \E o \in LiteralOffsets, d \in DexFiles, x \in TargetIdxs :
         RelativeCodePatchCall(3, o, d, x)
    \/ \E o \in LiteralOffsets, d \in DexFiles, x \in TargetIdxs :
         TypePatchCall(3, o, d, x)
    \/ \E i, j \in 1..3 : Assign(i, j)
    \/ CompareAll

SpecPatch == Init /\ [][NextPatch]_vars

\* Two patches, read through the accessors.
NextAccess ==
    \/ \E o \in LiteralOffsets, d \in DexFiles, x \in TargetIdxs :
         MethodPatchCall(2, o, d, x)
    \/ \E o \in LiteralOffsets, d \in DexFiles, x \in TargetIdxs :
         CodePatchCall(2, o, d, x)
    \/ \E o \in LiteralOffsets, d \in DexFiles, x \in TargetIdxs :
         RelativeCodePatchCall(2, o, d, x)
    \/ \E o \in LiteralOffsets, d \in DexFiles, x \in TargetIdxs :
         TypePatchCall(2, o, d, x)
    \/ \E i, j \in 1..2 : Assign(i, j)
    \/ \E i \in 1..2 : LiteralOffsetCall(i)
    \/ \E i \in 1..2 : TypeCall(i)
    \/ \E i \in 1..2 : TargetMethodCall(i)
    \/ \E i \in 1..2 : TargetTypeDexFileCall(i)
    \/ \E i \in 1..2 : TargetTypeIndexCall(i)

SpecAccess == Init /\ [][NextAccess]_vars

NextUnit ==
    \/ \E code \in Codes, dedupe \in BOOLEAN : SwapAllocCompiledMethod(code, dedupe)
    \/ \E m \in 1..MaxUnits : ReleaseSwapAllocatedCompiledMethod(m)
    \/ PoolRelease

SpecUnit == Init /\ [][NextUnit]_vars

(***************************************************************************)
(* Properties of SrcMap                                                    *)
(***************************************************************************)
Range(s) == {s[i] : i \in DOMAIN s}

\* The entries of s with their multiplicities.
SeqBag(s) == [e \in Range(s) |-> Cardinality({i \in DOMAIN s : s[i] = e})]

AscendingByFrom(s) == \A i \in 1..(Len(s) - 1) : s[i].from_ <= s[i + 1].from_

MinFrom(s) == CHOOSE f \in {s[i].from_ : i \in DOMAIN s} :
                 \A i \in DOMAIN s : f <= s[i].from_

\* Deltas back to absolute values: entry 1 is start plus delta 1, entry i is
\* the rebuilt entry i - 1 plus delta i, in the fields' own arithmetic.
RECURSIVE Reaccumulate(_, _)
Reaccumulate(start, m) ==
    IF m = <<>> THEN <<>>
    ELSE LET e == Elem(U(start.from_ + m[1].from_), S(start.to_ + m[1].to_))
         IN <<e>> \o Reaccumulate(e, Tail(m))

Encoded == last.op = "DeltaFormat" /\ last.pre # <<>>

\* C1: after DeltaFormat(start, highest_pc) on a non-empty map whose smallest
\* from_ is at least start.from_, adding the deltas up again from start gives
\* back the retained entries with their original values, ascending in from_:
\* a prefix of the input sorted by from_.  [(10,1),(20,2),(30,3)] with start
\* (0,0) and highest_pc 100 becomes [(10,1),(10,1),(10,1)].
C1_RoundTrip ==
    (Encoded /\ MinFrom(last.pre) >= last.start.from_) =>
        LET rebuilt == Reaccumulate(last.start, map)
        IN /\ ~aborted
           /\ rebuilt = last.kept
           /\ AscendingByFrom(rebuilt)
           /\ \E s \in SortByFrom(last.pre) : rebuilt = SubSeq(s, 1, Len(rebuilt))
           /\ map[1] = Elem(last.kept[1].from_ - last.start.from_,
                            S(last.kept[1].to_ - last.start.to_))
           /\ \A i \in 2..Len(map) :
                map[i] = Elem(last.kept[i].from_ - last.kept[i - 1].from_,
                              S(last.kept[i].to_ - last.kept[i - 1].to_))
           /\ (/\ last.pre = <<Elem(10, 1), Elem(20, 2), Elem(30, 3)>>
               /\ last.start = Elem(0, 0)
               /\ last.highest_pc = 100)
              => map = <<Elem(10, 1), Elem(10, 1), Elem(10, 1)>>

C1_Witness ==
    /\ Encoded
    /\ encodes = 1
    /\ last.pre = <<Elem(30, 3), Elem(10, 1), Elem(20, 2)>>
    /\ last.start = Elem(5, 0)
    /\ last.highest_pc = 100
    /\ map = <<Elem(5, 1), Elem(10, 1), Elem(10, 1)>>

BelowPc(s, highest_pc) == SelectSeq(s, LAMBDA e : e.from_ < highest_pc)

\* C2: DeltaFormat on a non-empty map keeps at least one entry; if some entry
\* has from_ < highest_pc it keeps exactly the entries with from_ <
\* highest_pc, otherwise exactly one entry, of the smallest from_.
\* [(10,1),(20,2),(90,3)] with start (5,0) and highest_pc 50 becomes
\* [(5,1),(10,1)].
C2_Truncation ==
    Encoded =>
        LET below == BelowPc(last.pre, last.highest_pc)
        IN /\ Len(map) >= 1
           /\ Len(map) = Len(last.kept)
           /\ AscendingByFrom(last.kept)
           /\ below # <<>> => SeqBag(last.kept) = SeqBag(below)
           /\ below = <<>> => /\ Len(map) = 1
                              /\ last.kept[1] \in Range(last.pre)
                              /\ last.kept[1].from_ = MinFrom(last.pre)
           /\ (/\ last.pre = <<Elem(10, 1), Elem(20, 2), Elem(90, 3)>>
               /\ last.start = Elem(5, 0)
               /\ last.highest_pc = 50)
              => map = <<Elem(5, 1), Elem(10, 1)>>

C2_Witness ==
    /\ Encoded
    /\ last.pre = <<Elem(90, 3), Elem(10, 1), Elem(20, 2)>>
    /\ last.start = Elem(5, 0)
    /\ last.highest_pc = 50
    /\ map = <<Elem(5, 1), Elem(10, 1)>>

\* C3: after Arrange the map is strictly increasing by the composite key and
\* holds exactly the distinct entries of the map it was called on.
C3_ArrangePost ==
    last.op = "Arrange" =>
        /\ \A i \in 1..(Len(map) - 1) : Key(map[i]) < Key(map[i + 1])
        /\ \A i, j \in DOMAIN map : Key(map[i]) = Key(map[j]) => i = j
        /\ Range(map) = Range(last.pre)

C3_Witness ==
    /\ last.op = "Arrange"
    /\ last.pre = <<Elem(20, 2), Elem(10, -1), Elem(20, 2)>>
    /\ map = <<Elem(10, -1), Elem(20, 2)>>

\* C4: Arrange on a map that Arrange has produced, the empty map included,
\* leaves it as it is.
C4_ArrangeIdempotent ==
    (last.op = "Arrange" /\ last.wasCanonical) => map = last.pre

C4_Witness ==
    /\ last.op = "Arrange"
    /\ last.wasCanonical
    /\ Len(map) >= 2
    /\ map = last.pre

\* C5: on an Arrange()d map FindByTo(to) returns the first position whose
\* composite key is at least that of (from_ = 0, to_ = to), which is the
\* first position with to_ >= to, end() if there is none, for negative to
\* and negative to_ as well; the map is not changed.
C5_FindByTo ==
    last.op = "FindByTo" =>
        LET r == last.result
            k == Key(Elem(0, last.to))
        IN /\ r \in 0..Len(map)
           /\ \A i \in 1..r : Key(map[i]) < k
           /\ r < Len(map) => Key(map[r + 1]) >= k
           /\ \A i \in 1..r : map[i].to_ < last.to
           /\ r < Len(map) => map[r + 1].to_ >= last.to
           /\ map = last.pre

C5_Witness ==
    /\ last.op = "FindByTo"
    /\ last.to = -1
    /\ Len(map) = 3
    /\ last.result = 1
    /\ map[1].to_ = MinTo
    /\ map[2].to_ = -1

\* C7 as stated: in a build with DCHECKs, every DeltaFormat after the first
\* on a non-empty map fails the DCHECK.
C7_SecondEncodeTrips ==
    (Encoded /\ encodes >= 2 /\ kIsDebugBuild) => last.dcheck = "failed"

\* C7, amended: DeltaFormat has one DCHECK, the baseline check, and a repeated
\* call is judged by it alone: in a build with DCHECKs it fails exactly if
\* start.from_ exceeds the smallest from_ of the map the call is made on, so
\* with start.from_ = 0 a repeated call always completes; in a build without
\* DCHECKs no repeated call is detected.
C7_SecondEncodeBaselineOnly ==
    (Encoded /\ encodes >= 2) =>
        /\ kIsDebugBuild =>
             /\ last.dcheck = "failed" <=> last.start.from_ > MinFrom(last.pre)
             /\ last.dcheck = "passed" <=> last.start.from_ <= MinFrom(last.pre)
             /\ aborted <=> last.dcheck = "failed"
        /\ ~kIsDebugBuild => (last.dcheck = "off" /\ ~aborted)
        /\ ~aborted => map = SubtractStart(DeltaLoop(last.kept, Len(last.kept) - 1),
                                           last.start)

C7_Witness ==
    /\ Encoded
    /\ encodes = 2
    /\ kIsDebugBuild
    /\ last.dcheck = "passed"
    /\ ~aborted
    /\ Len(map) = 3
    /\ last.pre = <<Elem(10, 1), Elem(10, 1), Elem(10, 1)>>
    /\ map = <<Elem(10, 1), Elem(0, 0), Elem(0, 0)>>

\* C9: on a non-empty map DeltaFormat's DCHECK fails exactly if start.from_
\* exceeds the from_ of entry 0 after sorting and truncation, the smallest
\* from_ of the map; when it holds, every from_ delta is the true,
\* non-negative difference.  On the empty map no DCHECK is evaluated and the
\* map stays empty; on a map of one entry only start is subtracted.
C9_BaselineAssert ==
    last.op = "DeltaFormat" =>
        IF last.pre = <<>>
        THEN map = <<>> /\ last.dcheck = "none" /\ ~aborted
        ELSE /\ last.kept[1].from_ = MinFrom(last.pre)
             /\ kIsDebugBuild =>
                  /\ last.dcheck \in {"passed", "failed"}
                  /\ last.dcheck = "failed" <=> last.start.from_ > last.kept[1].from_
                  /\ aborted <=> last.dcheck = "failed"
             /\ ~kIsDebugBuild => (last.dcheck = "off" /\ ~aborted)
             /\ last.start.from_ <= last.kept[1].from_ =>
                  /\ ~aborted
                  /\ map[1].from_ = last.kept[1].from_ - last.start.from_
                  /\ \A i \in 2..Len(map) :
                       /\ map[i].from_ = last.kept[i].from_ - last.kept[i - 1].from_
                       /\ map[i].from_ >= 0
             /\ (Len(last.pre) = 1 /\ ~aborted) =>
                  map = <<Elem(U(last.pre[1].from_ - last.start.from_),
                               S(last.pre[1].to_ - last.start.to_))>>

C9_Witness ==
    /\ Encoded
    /\ kIsDebugBuild
    /\ last.dcheck = "failed"
    /\ aborted
    /\ last.start = Elem(20, -1)
    /\ last.kept[1] = Elem(10, 1)
    /\ Len(last.kept) = 2

(***************************************************************************)
(* Properties of LinkerPatch                                               *)
(***************************************************************************)
Fields(p) == <<p.literal_offset_, p.patch_type_, p.target_idx_, p.target_dex_file_>>

\* a before b in the lexicographic order of two tuples of numbers.
LexLess(a, b) ==
    \E k \in DOMAIN a : a[k] < b[k] /\ \A j \in 1..(k - 1) : a[j] = b[j]

\* C6: on the compared patches operator< is irreflexive and transitive, of
\* a < b, b < a and a == b exactly one holds, a == b holds exactly for equal
\* fields, and a < b exactly if (literal_offset, patch_type, target_idx,
\* target_dex_file) of a is lexicographically smaller than that of b.
C6_PatchOrder ==
    cmp # <<>> =>
        \A i, j \in DOMAIN patches :
            LET lt == cmp[i][j].lt
                gt == cmp[j][i].lt
                eq == cmp[i][j].eq
            IN /\ (lt /\ ~gt /\ ~eq) \/ (~lt /\ gt /\ ~eq) \/ (~lt /\ ~gt /\ eq)
               /\ ~cmp[i][i].lt
               /\ eq <=> Fields(patches[i]) = Fields(patches[j])
               /\ lt <=> LexLess(Fields(patches[i]), Fields(patches[j]))
               /\ \A k \in DOMAIN patches : (lt /\ cmp[j][k].lt) => cmp[i][k].lt

C6_Witness ==
    /\ cmp # <<>>
    /\ patches = <<TypePatch(0, 1, 0), MethodPatch(0, 2, 1), MethodPatch(0, 1, 1)>>
    /\ cmp[3][2].lt
    /\ cmp[2][1].lt
    /\ cmp[3][1].lt
    /\ ~cmp[1][3].lt

FactoryKind(factory) ==
    CASE factory = "MethodPatch" -> kLinkerPatchMethod
      [] factory = "CodePatch" -> kLinkerPatchCall
      [] factory = "RelativeCodePatch" -> kLinkerPatchCallRelative
      [] factory = "TypePatch" -> kLinkerPatchType

MethodFactories == {"MethodPatch", "CodePatch", "RelativeCodePatch"}

\* C10: every patch holds the arguments of the factory call its value comes
\* from, with the kind of that factory; TargetMethod's DCHECK passes exactly
\* for the three method kinds, that of TargetTypeDexFile and TargetTypeIndex
\* exactly for kLinkerPatchType, so exactly one family is valid for a patch;
\* an accessor that returns returns the factory's argument; LiteralOffset
\* and Type have no DCHECK.
C10_AccessorValidity ==
    /\ \A i \in DOMAIN patches :
         /\ patches[i] = LinkerPatch(made[i].literal_offset, FactoryKind(made[i].factory),
                                     made[i].target_idx, made[i].target_dex_file)
         /\ TargetMethodDCheck(patches[i]) <=> made[i].factory \in MethodFactories
         /\ TargetTypeDCheck(patches[i]) <=> made[i].factory = "TypePatch"
         /\ TargetMethodDCheck(patches[i]) # TargetTypeDCheck(patches[i])
    /\ acc.fn # "none" =>
         LET m == made[acc.patch]
             valid == IF acc.fn = "TargetMethod" THEN m.factory \in MethodFactories
                      ELSE IF acc.fn \in {"TargetTypeDexFile", "TargetTypeIndex"}
                      THEN m.factory = "TypePatch"
                      ELSE TRUE
             expected == CASE acc.fn = "LiteralOffset" -> m.literal_offset
                           [] acc.fn = "Type" -> FactoryKind(m.factory)
                           [] acc.fn = "TargetMethod" -> <<m.target_dex_file, m.target_idx>>
                           [] acc.fn = "TargetTypeDexFile" -> m.target_dex_file
                           [] acc.fn = "TargetTypeIndex" -> m.target_idx
         IN /\ acc.fn \in {"LiteralOffset", "Type"} => acc.dcheck = "none"
            /\ acc.fn \notin {"LiteralOffset", "Type"} =>
                 /\ kIsDebugBuild => (acc.dcheck = IF valid THEN "passed" ELSE "failed")
                 /\ ~kIsDebugBuild => acc.dcheck = "off"
            /\ aborted <=> acc.dcheck = "failed"
            /\ ~aborted => acc.value = <<expected>>

C10_Witness ==
    /\ acc.fn = "TargetMethod"
    /\ kIsDebugBuild
    /\ made[acc.patch].factory = "RelativeCodePatch"
    /\ acc.dcheck = "passed"
    /\ acc.value = <<(<<2, 1>>)>>

====
